---- MODULE Spec2Model ----
(***************************************************************************)
(* Behavioural/state.cpp: a TCPConnection (the context) holds a pointer to *)
(* one of three State objects and forwards open/close/sendData/receiveData *)
(* to it.  A client (main, or any other caller) constructs the connection  *)
(* and makes a sequence of calls on it.  Every handler writes one line to  *)
(* std::cout; a line is modelled as the tuple of the pieces streamed into  *)
(* std::cout before std::endl.                                             *)
(*                                                                         *)
(* The other pattern demonstrations of the repository (singleton, proxy,   *)
(* iterator, observer, strategy, decorator, prototype, adapter) are        *)
(* separate programs.  Each has its own objects and its own specification  *)
(* below; they share the client harness (client, pc, log) and std::cout.   *)
(***************************************************************************)
EXTENDS Integers, Sequences, FiniteSets, TLC

VARIABLES
    state,    \* TCPConnection::state, the State object pointed to
    out,      \* the lines written to std::cout so far
    client,   \* the calls the client code makes on the connection, in order
    pc,       \* index of the client's next call
    log       \* history: one record per call already made

VARIABLES
    heap,         \* the objects created with new / make_unique, by address
    instance,     \* Singleton::instance
    image,        \* proxy.cpp: the ProxyImage objects (filename, realImage)
    books,        \* Library::books
    index,        \* BookIterator::index
    temperature,  \* WeatherStation::temperature
    observers,    \* WeatherStation::observers
    strategy,     \* PaymentContext::strategy
    myCoffee,     \* decorator.cpp: main's myCoffee
    mediaAdapter  \* AudioPlayer::mediaAdapter

vars == <<state, out, client, pc, log, heap, instance, image, books, index,
          temperature, observers, strategy, myCoffee, mediaAdapter>>

\* The null pointer; addresses of heap objects are 1, 2, ...
NullPtr == 0

\* The objects of the programs that are not running.
NoConnection == state = "ClosedState"

NoHeap == heap = << >>

NoSingleton == instance = NullPtr

NoProxy == image = << >>

NoLibrary == books = << >> /\ index = 0

NoStation == temperature = 0 /\ observers = << >>

NoPayment == strategy = NullPtr

NoCoffee == myCoffee = << >>

NoPlayer == mediaAdapter = NullPtr

\* What the programs other than the one named leave alone.
OutsideConnection ==
    <<heap, instance, image, books, index, temperature, observers,
      strategy, myCoffee, mediaAdapter>>

OutsideSingleton ==
    <<state, image, books, index, temperature, observers,
      strategy, myCoffee, mediaAdapter>>

OutsideProxy ==
    <<state, instance, books, index, temperature, observers,
      strategy, myCoffee, mediaAdapter>>

OutsideLibrary ==
    <<state, instance, image, temperature, observers,
      strategy, myCoffee, mediaAdapter>>

OutsideStation ==
    <<state, heap, instance, image, books, index,
      strategy, myCoffee, mediaAdapter>>

OutsidePayment ==
    <<state, heap, instance, image, books, index, temperature, observers,
      myCoffee, mediaAdapter>>

OutsideCoffee ==
    <<state, heap, instance, image, books, index, temperature, observers,
      strategy, mediaAdapter>>

OutsideShapes ==
    <<state, instance, image, books, index, temperature, observers,
      strategy, myCoffee, mediaAdapter>>

OutsidePlayer ==
    <<state, instance, image, books, index, temperature, observers,
      strategy, myCoffee>>

\* Length of the arbitrary client programs that are enumerated.
MaxCalls == 3

\* The three State objects main creates.
States == {"ClosedState", "ListeningState", "EstablishedState"}

\* The strings main passes to sendData and receiveData.
Payloads == {"Hello", "Hi"}

NoArg == "-"

Call(op, arg) == [op |-> op, arg |-> arg]

\* The public methods of TCPConnection with their arguments.
Calls ==
    {Call("open", NoArg), Call("close", NoArg)}
        \cup {Call("sendData", d) : d \in Payloads}
        \cup {Call("receiveData", d) : d \in Payloads}
        \cup {Call("setState", s) : s \in States}

\* The calls of main, in order.
MainCalls ==
    << Call("sendData", "Hello"),
       Call("receiveData", "Hi"),
       Call("setState", "ListeningState"),
       Call("receiveData", "Hello"),
       Call("setState", "EstablishedState"),
       Call("sendData", "Hello"),
       Call("receiveData", "Hi"),
       Call("close", NoArg) >>

\* A client that uses the four actions only: open, receive, send, close.
RoundTrip(x, y) ==
    << Call("open", NoArg), Call("receiveData", x),
       Call("sendData", y), Call("close", NoArg) >>

\* The client programs: every call sequence up to MaxCalls, main's, and the
\* open/receive/send/close round trips.
Clients ==
    UNION {[1..n -> Calls] : n \in 0..MaxCalls}
        \cup {MainCalls}
        \cup {RoundTrip(x, y) : x \in Payloads, y \in Payloads}

(***************************************************************************)
(* The handlers of the three concrete states.  Each returns the lines it   *)
(* prints; none of them touches the connection.                            *)
(***************************************************************************)
ClosedState_open == << <<"Transitioning from Closed to Listening state.">> >>

\* Slip: close carries the body of open.
ClosedState_close_asOpen == << <<"Transitioning from Closed to Listening state.">> >>

ClosedState_close == << <<"Already in Closed state.">> >>

\* Slip: the Closed handler returns without reporting.
ClosedState_sendData_silent(data) == << >>

ClosedState_sendData(data) == << <<"Cannot send data. Connection is closed.">> >>

ClosedState_receiveData(data) == << <<"Cannot receive data. Connection is closed.">> >>

ListeningState_open == << <<"Already in Listening state.">> >>

ListeningState_close == << <<"Transitioning from Listening to Closed state.">> >>

\* Slip: the Listening handler sends as the Established one does.
ListeningState_sendData_sends(data) == << <<"Sending data: ", data>> >>

ListeningState_sendData(data) == << <<"Cannot send data. Connection is in Listening state.">> >>

ListeningState_receiveData(data) == << <<"Transitioning from Listening to Established state.">> >>

EstablishedState_open == << <<"Already in Established state.">> >>

EstablishedState_close == << <<"Transitioning from Established to Closed state.">> >>

EstablishedState_sendData(data) == << <<"Sending data: ", data>> >>

\* Slip: the Established handler looks into the payload.
EstablishedState_receiveData_inspects(data) ==
    IF data = "Hi"
    THEN << <<"Cannot receive data. Connection is closed.">> >>
    ELSE << <<"Receiving data: ", data>> >>

EstablishedState_receiveData(data) == << <<"Receiving data: ", data>> >>

\* Virtual dispatch through the State interface.
State_open(s) ==
    CASE s = "ClosedState" -> ClosedState_open
      [] s = "ListeningState" -> ListeningState_open
      [] s = "EstablishedState" -> EstablishedState_open

State_close(s) ==
    CASE s = "ClosedState" -> ClosedState_close
      [] s = "ListeningState" -> ListeningState_close
      [] s = "EstablishedState" -> EstablishedState_close

State_sendData(s, data) ==
    CASE s = "ClosedState" -> ClosedState_sendData(data)
      [] s = "ListeningState" -> ListeningState_sendData(data)
      [] s = "EstablishedState" -> EstablishedState_sendData(data)

State_receiveData(s, data) ==
    CASE s = "ClosedState" -> ClosedState_receiveData(data)
      [] s = "ListeningState" -> ListeningState_receiveData(data)
      [] s = "EstablishedState" -> EstablishedState_receiveData(data)

(***************************************************************************)
(* The connection.                                                         *)
(***************************************************************************)
\* The client's next call is op.
AtCall(op) == pc <= Len(client) /\ client[pc].op = op

\* The call returns: what it printed and the state it leaves.
Return(printed, next) ==
    /\ out' = out \o printed
    /\ state' = next
    /\ log' = Append(log, [call |-> client[pc], before |-> state,
                           after |-> next, printed |-> printed])
    /\ pc' = pc + 1
    /\ client' = client
    /\ UNCHANGED OutsideConnection

\* TCPConnection(initialState), before the client's first call.
Init ==
    /\ state \in States
    /\ out = << >>
    /\ client \in Clients
    /\ pc = 1
    /\ log = << >>
    /\ NoHeap /\ NoSingleton /\ NoProxy /\ NoLibrary /\ NoStation
    /\ NoPayment /\ NoCoffee /\ NoPlayer

\* Slip: the pointer is reset instead of being assigned.
TCPConnection_setState_reset(newState) ==
    /\ AtCall("setState")
    /\ client[pc].arg = newState
    /\ Return(<< >>, "nullptr")

\* Slip: the assignment is lost and the old state stays.
TCPConnection_setState_lost(newState) ==
    /\ AtCall("setState")
    /\ client[pc].arg = newState
    /\ Return(<< >>, state)

TCPConnection_setState(newState) ==
    /\ AtCall("setState")
    /\ client[pc].arg = newState
    /\ Return(<< >>, newState)

TCPConnection_open ==
    /\ AtCall("open")
    /\ Return(State_open(state), state)

TCPConnection_close ==
    /\ AtCall("close")
    /\ Return(State_close(state), state)

TCPConnection_sendData(data) ==
    /\ AtCall("sendData")
    /\ client[pc].arg = data
    /\ Return(State_sendData(state, data), state)

TCPConnection_receiveData(data) ==
    /\ AtCall("receiveData")
    /\ client[pc].arg = data
    /\ Return(State_receiveData(state, data), state)

Next ==
    \/ \E s \in States : TCPConnection_setState(s)
    \/ TCPConnection_open
    \/ TCPConnection_close
    \/ \E d \in Payloads : TCPConnection_sendData(d)
    \/ \E d \in Payloads : TCPConnection_receiveData(d)

Spec == Init /\ [][Next]_vars

(***************************************************************************)
(* Reading the reports.  The kind of a printed line is taken from its      *)
(* fixed text; the class that printed it from the state the text names.    *)
(***************************************************************************)
TransitionLines ==
    { <<"Transitioning from Closed to Listening state.">>,
      <<"Transitioning from Listening to Closed state.">>,
      <<"Transitioning from Listening to Established state.">>,
      <<"Transitioning from Established to Closed state.">> }

AlreadyLines ==
    { <<"Already in Closed state.">>,
      <<"Already in Listening state.">>,
      <<"Already in Established state.">> }

RejectLines ==
    { <<"Cannot send data. Connection is closed.">>,
      <<"Cannot receive data. Connection is closed.">>,
      <<"Cannot send data. Connection is in Listening state.">> }

AcceptHeads == {"Sending data: ", "Receiving data: "}

ReportKind(line) ==
    CASE line \in TransitionLines -> "transition"
      [] line \in AlreadyLines -> "stay"
      [] line \in RejectLines -> "reject"
      [] Len(line) = 2 /\ line[1] \in AcceptHeads -> "accept"
      [] OTHER -> "none"

\* The lines each concrete state's handlers print.
PrintedBy(s) ==
    CASE s = "ClosedState" ->
            { <<"Transitioning from Closed to Listening state.">>,
              <<"Already in Closed state.">>,
              <<"Cannot send data. Connection is closed.">>,
              <<"Cannot receive data. Connection is closed.">> }
      [] s = "ListeningState" ->
            { <<"Already in Listening state.">>,
              <<"Transitioning from Listening to Closed state.">>,
              <<"Cannot send data. Connection is in Listening state.">>,
              <<"Transitioning from Listening to Established state.">> }
      [] s = "EstablishedState" ->
            { <<"Already in Established state.">>,
              <<"Transitioning from Established to Closed state.">> }
                \cup {<<h, d>> : h \in AcceptHeads, d \in Payloads}

Actions == {"open", "close", "sendData", "receiveData"}

Done == 1..Len(log)

\* The state the connection was constructed with.
InitialState == IF log = << >> THEN state ELSE log[1].before

\* The call printed exactly one line, of kind k.
Reported(e, k) == Len(e.printed) = 1 /\ ReportKind(e.printed[1]) = k

\* The call printed exactly one line, made of head followed by the payload.
Echoed(e, head) == e.printed = << <<head, e.call.arg>> >>

\* The client never calls setState.
OnlyActions == \A k \in 1..Len(client) : client[k].op \in Actions

(***************************************************************************)
(* C1: close() from any of the three states leaves the connection in       *)
(* ClosedState, and so does a second close() right after it.               *)
(***************************************************************************)
C1_CloseYieldsClosed ==
    \A i \in Done :
        log[i].call.op = "close" =>
            /\ log[i].after = "ClosedState"
            /\ (i + 1 \in Done /\ log[i + 1].call.op = "close"
                    => log[i + 1].after = "ClosedState")

(***************************************************************************)
(* C2: open() in ClosedState makes the state ListeningState; open() in     *)
(* ListeningState or EstablishedState leaves the state unchanged.          *)
(***************************************************************************)
C2_OpenFromClosedListens ==
    \A i \in Done :
        log[i].call.op = "open" =>
            log[i].after = IF log[i].before = "ClosedState"
                           THEN "ListeningState" ELSE log[i].before

(***************************************************************************)
(* C3: receiveData(p) in ListeningState makes the state EstablishedState;  *)
(* in EstablishedState it keeps the state and the report echoes p; in      *)
(* ClosedState it is rejected and the state stays ClosedState.             *)
(***************************************************************************)
C3_ReceiveEstablishes ==
    \A i \in Done :
        log[i].call.op = "receiveData" =>
            /\ log[i].before = "ListeningState"
                    => log[i].after = "EstablishedState"
            /\ log[i].before = "EstablishedState"
                    => /\ log[i].after = "EstablishedState"
                       /\ Echoed(log[i], "Receiving data: ")
            /\ log[i].before = "ClosedState"
                    => /\ log[i].after = "ClosedState"
                       /\ Reported(log[i], "reject")

(***************************************************************************)
(* C4: sendData(p) is accepted ("Sending data: p") exactly when the state  *)
(* is EstablishedState, is rejected in ClosedState and ListeningState, and *)
(* never changes the state.                                                *)
(***************************************************************************)
C4_SendAcceptedIffEstablished ==
    \A i \in Done :
        log[i].call.op = "sendData" =>
            /\ Reported(log[i], "accept") <=> log[i].before = "EstablishedState"
            /\ log[i].before = "EstablishedState"
                    => Echoed(log[i], "Sending data: ")
            /\ log[i].before \in {"ClosedState", "ListeningState"}
                    => Reported(log[i], "reject")
            /\ log[i].after = log[i].before

\* A send accepted in EstablishedState and a send rejected elsewhere.
C4_Witness ==
    \E i, j \in Done :
        /\ log[i].call.op = "sendData" /\ log[j].call.op = "sendData"
        /\ log[i].before = "EstablishedState" /\ Reported(log[i], "accept")
        /\ log[j].before = "ListeningState" /\ Reported(log[j], "reject")

(***************************************************************************)
(* C5: from ClosedState, with the four actions only, open(); receive(x);   *)
(* send(y); close() passes through ListeningState and EstablishedState,    *)
(* ends in ClosedState, and the send is accepted exactly once.             *)
(***************************************************************************)
C5_RoundTrip ==
    \A x, y \in Payloads :
        (client = RoundTrip(x, y) /\ InitialState = "ClosedState" /\ Len(log) = 4)
            => /\ log[1].after = "ListeningState"
               /\ log[2].after = "EstablishedState"
               /\ log[3].after = "EstablishedState"
               /\ log[4].after = "ClosedState"
               /\ Cardinality({i \in Done : /\ log[i].call.op = "sendData"
                                            /\ Reported(log[i], "accept")}) = 1

(***************************************************************************)
(* C6: in main's run the connection starts in ClosedState; send("Hello")   *)
(* and receive("Hi") are rejected and keep ClosedState; after              *)
(* setState(listening), receive("Hello") makes the state EstablishedState  *)
(* by itself; send("Hello") and receive("Hi") are then accepted and keep   *)
(* EstablishedState; the final close() makes the state ClosedState.        *)
(***************************************************************************)
MainAfter ==
    << "ClosedState", "ClosedState", "ListeningState", "EstablishedState",
       "EstablishedState", "EstablishedState", "EstablishedState", "ClosedState" >>

MainKind ==
    << "reject", "reject", "silent", "transition",
       "silent", "accept", "accept", "transition" >>

C6_ReferenceRun ==
    (client = MainCalls /\ InitialState = "ClosedState") =>
        \A i \in Done :
            /\ log[i].after = MainAfter[i]
            /\ IF MainKind[i] = "silent"
               THEN log[i].printed = << >>
               ELSE Reported(log[i], MainKind[i])

(***************************************************************************)
(* C7: after any sequence of open, close, send, receive and setState calls *)
(* the current state is one of the three State objects, and so is the      *)
(* state seen before and after every single call.                          *)
(***************************************************************************)
C7_StateIsOneOfThree ==
    /\ state \in States
    /\ \A i \in Done : log[i].before \in States /\ log[i].after \in States
    /\ log # << >> => state = log[Len(log)].after
    /\ \A i \in Done : i + 1 \in Done => log[i + 1].before = log[i].after

\* A run with a setState, an action after it, and the client finished.
C7_Witness ==
    /\ pc > Len(client)
    /\ \E i \in Done :
        /\ log[i].call.op = "setState"
        /\ log[i].before # log[i].after
        /\ i + 1 \in Done
        /\ log[i + 1].call.op \in Actions

(***************************************************************************)
(* C8: each of the 12 (state, action) pairs is enabled and completes with  *)
(* one report of a known kind; nothing blocks, and after a rejected call   *)
(* the client's next call, whichever it is, can be made.                   *)
(***************************************************************************)
C8_EveryPairCompletes ==
    /\ pc <= Len(client) => ENABLED Next
    /\ \A i \in Done :
        log[i].call.op \in Actions =>
            /\ Len(log[i].printed) = 1
            /\ ReportKind(log[i].printed[1]) \in {"transition", "stay", "reject", "accept"}
    /\ Len(out) = Cardinality({i \in Done : log[i].call.op \in Actions})

\* A rejected call followed by another action that completed with a report.
C8_Witness ==
    \E i \in Done :
        /\ Reported(log[i], "reject")
        /\ i + 1 \in Done
        /\ log[i + 1].call.op \in Actions
        /\ Len(log[i + 1].printed) = 1

(***************************************************************************)
(* C9: setState(next) makes the current state next whatever it was before, *)
(* prints nothing, and every later action is answered by the handlers of   *)
(* next until the state changes again.                                     *)
(***************************************************************************)
C9_SetStateOverwrites ==
    \A i \in Done :
        log[i].call.op = "setState" =>
            /\ log[i].after = log[i].call.arg
            /\ log[i].printed = << >>
            /\ \A j \in Done :
                (/\ j > i
                 /\ log[j].call.op \in Actions
                 /\ \A k \in i..(j - 1) : log[k].after = log[i].call.arg)
                    => /\ Len(log[j].printed) = 1
                       /\ log[j].printed[1] \in PrintedBy(log[i].call.arg)

\* setState replaced a different state and an action followed.
C9_Witness ==
    \E i \in Done :
        /\ log[i].call.op = "setState"
        /\ log[i].before # log[i].call.arg
        /\ i + 1 \in Done
        /\ log[i + 1].call.op \in Actions
        /\ log[i + 1].printed[1] \in PrintedBy(log[i].call.arg)

(***************************************************************************)
(* C10: with the four actions alone there is no terminal state: wherever   *)
(* the connection is, one close() brings it to ClosedState, and from       *)
(* ClosedState open() then receive(x) bring it to ListeningState and       *)
(* EstablishedState again.                                                 *)
(***************************************************************************)
C10_NoTerminalState ==
    OnlyActions =>
        \A i \in Done :
            /\ log[i].call.op = "close" => log[i].after = "ClosedState"
            /\ (/\ log[i].before = "ClosedState"
                /\ log[i].call.op = "open"
                /\ i + 1 \in Done
                /\ log[i + 1].call.op = "receiveData")
                    => /\ log[i].after = "ListeningState"
                       /\ log[i + 1].after = "EstablishedState"

(***************************************************************************)
(* C11: the payload never influences the machine: two sends (or two        *)
(* receives) made in the same state with whatever payloads leave the same  *)
(* state and are both accepted or both rejected; an accepted report        *)
(* differs only in the payload it echoes.                                  *)
(***************************************************************************)
C11_PayloadIsOpaque ==
    \A i, j \in Done :
        (/\ log[i].call.op \in {"sendData", "receiveData"}
         /\ log[j].call.op = log[i].call.op
         /\ log[j].before = log[i].before)
            => /\ log[i].after = log[j].after
               /\ Len(log[i].printed) = 1 /\ Len(log[j].printed) = 1
               /\ ReportKind(log[i].printed[1]) = ReportKind(log[j].printed[1])
               /\ log[i].printed[1][1] = log[j].printed[1][1]

\* Two receives accepted in EstablishedState with different payloads.
C11_Witness ==
    \E i, j \in Done :
        /\ log[i].call.op = "receiveData" /\ log[j].call.op = "receiveData"
        /\ log[i].before = "EstablishedState" /\ log[j].before = "EstablishedState"
        /\ log[i].call.arg # log[j].call.arg
        /\ Reported(log[i], "accept") /\ Reported(log[j], "accept")
        /\ log[i].printed # log[j].printed

(***************************************************************************)
(* C21, as stated: the current state changes only in the course of one of  *)
(* the four actions open, close, send, receive; every step that changes    *)
(* it completes one of these four calls.                                   *)
(***************************************************************************)
C21_OnlyActionsChangeState ==
    [][state' # state => \E op \in Actions : AtCall(op)]_vars

(***************************************************************************)
(* C21, amended: the current state changes only in the course of one of    *)
(* the four actions or of setState, never between calls, and a change made *)
(* in the course of setState(next) is the change to next.                  *)
(***************************************************************************)
C21_OnlyCallsChangeState ==
    [][state' # state =>
            /\ \E op \in Actions \cup {"setState"} : AtCall(op)
            /\ pc' = pc + 1
            /\ AtCall("setState") => state' = client[pc].arg]_vars

\* The state has changed twice since construction, and actions that left
\* it alone were made as well.
C21_Witness ==
    /\ \E i, j \in Done :
            /\ i < j
            /\ log[i].before # log[i].after
            /\ log[j].before # log[j].after
            /\ state = log[j].after
    /\ \E k \in Done : log[k].call.op \in Actions

(***************************************************************************)
(* C22: each action call prints exactly one report, of the kind the        *)
(* transition table gives for (current state, action): transition for      *)
(* (Closed, open), (Listening, close), (Listening, receive) and            *)
(* (Established, close); "already in this state" for (Listening, open),    *)
(* (Established, open) and (Closed, close); a rejection for send and       *)
(* receive in Closed and send in Listening; an accept report carrying the  *)
(* payload for send and receive in Established.                            *)
(***************************************************************************)
TableKind(s, op) ==
    CASE <<s, op>> \in { <<"ClosedState", "open">>,
                         <<"ListeningState", "close">>,
                         <<"ListeningState", "receiveData">>,
                         <<"EstablishedState", "close">> } -> "transition"
      [] <<s, op>> \in { <<"ListeningState", "open">>,
                         <<"EstablishedState", "open">>,
                         <<"ClosedState", "close">> } -> "stay"
      [] <<s, op>> \in { <<"ClosedState", "sendData">>,
                         <<"ClosedState", "receiveData">>,
                         <<"ListeningState", "sendData">> } -> "reject"
      [] <<s, op>> \in { <<"EstablishedState", "sendData">>,
                         <<"EstablishedState", "receiveData">> } -> "accept"

\* The lines printed so far by the first n calls.
PrintedUpTo(n) == Cardinality({i \in 1..n : log[i].call.op \in Actions})

C22_ReportPerTable ==
    /\ \A i \in Done :
        log[i].call.op \in Actions =>
            /\ Reported(log[i], TableKind(log[i].before, log[i].call.op))
            /\ Reported(log[i], "accept")
                    => /\ Len(log[i].printed[1]) = 2
                       /\ log[i].printed[1][2] = log[i].call.arg
            /\ out[PrintedUpTo(i)] = log[i].printed[1]
    /\ Len(out) = PrintedUpTo(Len(log))

\* A finished run whose calls drew three different kinds of report, one of
\* them an accept report carrying its payload.
C22_Witness ==
    /\ pc > Len(client)
    /\ Cardinality({TableKind(log[i].before, log[i].call.op) :
                        i \in {j \in Done : log[j].call.op \in Actions}}) >= 3
    /\ \E i \in Done :
            /\ log[i].call.op = "receiveData"
            /\ log[i].printed = << <<"Receiving data: ", log[i].call.arg>> >>

(***************************************************************************)
(* Creational/singleton.cpp.  The client calls Singleton::getInstance()    *)
(* and showMessage() on the pointer it got, in any order after the first   *)
(* getInstance.                                                            *)
(***************************************************************************)
\* Number of calls of the singleton's clients.
MaxGets == 5

\* The client's call returns: what it printed and the record of the call.
Finish(printed, entry) ==
    /\ out' = out \o printed
    /\ log' = Append(log, entry)
    /\ pc' = pc + 1
    /\ client' = client

SingletonCalls == {Call("getInstance", NoArg), Call("showMessage", NoArg)}

\* main gets the instance before it uses it.
SingletonClients ==
    {c \in UNION {[1..n -> SingletonCalls] : n \in 0..MaxGets} :
        c # << >> => c[1].op = "getInstance"}

\* Singleton::Singleton()
Singleton_Singleton == << <<"Singleton instance created.">> >>

\* Slip: the null check is missing and every call constructs.
Singleton_getInstance_renews ==
    /\ AtCall("getInstance")
    /\ heap' = Append(heap, [class |-> "Singleton"])
    /\ instance' = Len(heap) + 1
    /\ Finish(Singleton_Singleton,
              [call |-> client[pc], ret |-> Len(heap) + 1,
               printed |-> Singleton_Singleton])
    /\ UNCHANGED OutsideSingleton

Singleton_getInstance ==
    /\ AtCall("getInstance")
    /\ IF instance = NullPtr
       THEN /\ heap' = Append(heap, [class |-> "Singleton"])
            /\ instance' = Len(heap) + 1
            /\ Finish(Singleton_Singleton,
                      [call |-> client[pc], ret |-> Len(heap) + 1,
                       printed |-> Singleton_Singleton])
       ELSE /\ UNCHANGED <<heap, instance>>
            /\ Finish(<< >>, [call |-> client[pc], ret |-> instance,
                              printed |-> << >>])
    /\ UNCHANGED OutsideSingleton

Singleton_showMessage ==
    /\ AtCall("showMessage")
    /\ Finish(<< <<"Hello from the Singleton instance!">> >>,
              [call |-> client[pc], ret |-> NullPtr,
               printed |-> << <<"Hello from the Singleton instance!">> >>])
    /\ UNCHANGED <<heap, instance>>
    /\ UNCHANGED OutsideSingleton

InitSingleton ==
    /\ instance = NullPtr
    /\ heap = << >>
    /\ out = << >>
    /\ client \in SingletonClients
    /\ pc = 1
    /\ log = << >>
    /\ NoConnection /\ NoProxy /\ NoLibrary /\ NoStation
    /\ NoPayment /\ NoCoffee /\ NoPlayer

NextSingleton ==
    \/ Singleton_getInstance
    \/ Singleton_showMessage

SpecSingleton == InitSingleton /\ [][NextSingleton]_vars

(***************************************************************************)
(* C12: over any sequence of getInstance() calls every call returns the    *)
(* same instance, and the constructor runs exactly once, during the first  *)
(* call.                                                                   *)
(***************************************************************************)
Gets == {i \in Done : log[i].call.op = "getInstance"}

C12_OneInstance ==
    /\ \A i, j \in Gets : log[i].ret = log[j].ret /\ log[i].ret # NullPtr
    /\ \A i \in Gets : log[i].ret \in 1..Len(heap) /\ heap[log[i].ret].class = "Singleton"
    /\ Len(heap) = IF Gets = {} THEN 0 ELSE 1
    /\ \A i \in Gets :
        log[i].printed = IF \A j \in Gets : i <= j
                         THEN << <<"Singleton instance created.">> >>
                         ELSE << >>

\* Three getInstance calls made, with a showMessage between them.
C12_Witness ==
    /\ Cardinality(Gets) >= 3
    /\ \E i \in Done : log[i].call.op = "showMessage" /\ i < Len(log)

(***************************************************************************)
(* Structural/proxy.cpp.  The client constructs ProxyImage objects and     *)
(* calls display() on them; a proxy creates its RealImage on first use.    *)
(***************************************************************************)
\* Number of calls of the proxy's clients.
MaxShows == 4

\* Number of ProxyImage objects a client creates.
MaxProxies == 2

\* File names; the first is main's.
Files == {"high_resolution_image.jpg", "thumbnail.jpg"}

ProxyCalls ==
    {Call("ProxyImage", f) : f \in Files}
        \cup {Call("display", k) : k \in 1..MaxProxies}

\* Number of proxies constructed by the first n calls of c.
Constructed(c, n) == Cardinality({i \in 1..n : c[i].op = "ProxyImage"})

\* A client displays only proxies it has constructed.
ProxyClients ==
    {c \in UNION {[1..n -> ProxyCalls] : n \in 0..MaxShows} :
        /\ Constructed(c, Len(c)) <= MaxProxies
        /\ \A i \in 1..Len(c) :
            c[i].op = "display" => c[i].arg <= Constructed(c, i - 1)}

RealImage_loadImageFromDisk(filename) ==
    << <<"Loading image from disk: ", filename>> >>

\* RealImage::RealImage(file)
RealImage_RealImage(file) == RealImage_loadImageFromDisk(file)

RealImage_display(filename) == << <<"Displaying image: ", filename>> >>

\* ProxyImage::ProxyImage(file)
ProxyImage_ProxyImage(file) ==
    /\ AtCall("ProxyImage")
    /\ client[pc].arg = file
    /\ image' = Append(image, [filename |-> file, realImage |-> NullPtr])
    /\ heap' = heap
    /\ Finish(<< >>, [call |-> client[pc], printed |-> << >>])
    /\ UNCHANGED OutsideProxy

\* Slip: the check of realImage is missing and every display loads again.
ProxyImage_display_reloads(k) ==
    /\ AtCall("display")
    /\ client[pc].arg = k
    /\ LET file == image[k].filename
           printed == RealImage_RealImage(file) \o RealImage_display(file)
       IN /\ heap' = Append(heap, [class |-> "RealImage", filename |-> file])
          /\ image' = [image EXCEPT ![k].realImage = Len(heap) + 1]
          /\ Finish(printed, [call |-> client[pc], printed |-> printed])
    /\ UNCHANGED OutsideProxy

ProxyImage_display(k) ==
    /\ AtCall("display")
    /\ client[pc].arg = k
    /\ IF image[k].realImage = NullPtr
       THEN LET file == image[k].filename
                printed == RealImage_RealImage(file) \o RealImage_display(file)
            IN /\ heap' = Append(heap, [class |-> "RealImage", filename |-> file])
               /\ image' = [image EXCEPT ![k].realImage = Len(heap) + 1]
               /\ Finish(printed, [call |-> client[pc], printed |-> printed])
       ELSE LET printed == RealImage_display(heap[image[k].realImage].filename)
            IN /\ UNCHANGED <<heap, image>>
               /\ Finish(printed, [call |-> client[pc], printed |-> printed])
    /\ UNCHANGED OutsideProxy

InitProxy ==
    /\ image = << >>
    /\ heap = << >>
    /\ out = << >>
    /\ client \in ProxyClients
    /\ pc = 1
    /\ log = << >>
    /\ NoConnection /\ NoSingleton /\ NoLibrary /\ NoStation
    /\ NoPayment /\ NoCoffee /\ NoPlayer

NextProxy ==
    \/ \E f \in Files : ProxyImage_ProxyImage(f)
    \/ \E k \in 1..MaxProxies : ProxyImage_display(k)

SpecProxy == InitProxy /\ [][NextProxy]_vars

(***************************************************************************)
(* C13: constructing a ProxyImage loads nothing; the first display() of a  *)
(* proxy loads the image and then displays it; over n >= 1 display() calls *)
(* on one proxy the image is loaded exactly once, before the first         *)
(* display, and displayed n times.                                         *)
(***************************************************************************)
\* The display calls made so far on proxy k.
Shows(k) == {i \in Done : log[i].call.op = "display" /\ log[i].call.arg = k}

\* The lines printed by the calls in I: <<call, position in its output>>.
Lines(I) == {l \in I \X (1..2) : l[2] <= Len(log[l[1]].printed)}

C13_LoadedOnceOnFirstDisplay ==
    /\ \A i \in Done : log[i].call.op = "ProxyImage" => log[i].printed = << >>
    /\ \A k \in 1..Len(image) :
        LET file == image[k].filename
            loads == {l \in Lines(Shows(k)) :
                        log[l[1]].printed[l[2]] = <<"Loading image from disk: ", file>>}
            shown == {l \in Lines(Shows(k)) :
                        log[l[1]].printed[l[2]] = <<"Displaying image: ", file>>}
        IN /\ Cardinality(shown) = Cardinality(Shows(k))
           /\ Cardinality(loads) = IF Shows(k) = {} THEN 0 ELSE 1
           /\ Lines(Shows(k)) = loads \cup shown
           /\ \A l \in loads :
                /\ l[2] = 1
                /\ \A i \in Shows(k) : l[1] <= i
           /\ (Shows(k) = {}) = (image[k].realImage = NullPtr)
    /\ Len(heap) = Cardinality({k \in 1..Len(image) : Shows(k) # {}})

\* A proxy displayed three times after it was constructed.
C13_Witness ==
    \E k \in 1..Len(image) :
        /\ Cardinality(Shows(k)) >= 3
        /\ image[k].realImage # NullPtr

(***************************************************************************)
(* Behavioural/iterator.cpp.  The client is main's shape: it adds books,   *)
(* creates one iterator, and runs while (hasNext()) next().  It may also   *)
(* add a book between two rounds of the loop, and call next() once more    *)
(* after the loop has ended.  Here pc is the client's place: "fill",       *)
(* "test" (about to call hasNext), "body", "done", "end".                  *)
(***************************************************************************)
\* Number of books a library holds at most.
MaxBooks == 3

\* The books of main.
Books ==
    { [title |-> "The Catcher in the Rye", author |-> "J.D. Salinger"],
      [title |-> "To Kill a Mockingbird", author |-> "Harper Lee"],
      [title |-> "1984", author |-> "George Orwell"] }

\* The client's call returns val; the client goes on at place next.
Answer(call, val, printed, next) ==
    /\ out' = out \o printed
    /\ log' = Append(log, [call |-> call, ret |-> val])
    /\ pc' = next
    /\ client' = client

\* Slip: the bound is off by one and the last book is never reached.
BookIterator_hasNext_short == index + 1 < Len(books)

BookIterator_hasNext == index < Len(books)

\* Library::addBook(title, author)
Library_addBook(b) ==
    /\ pc \in {"fill", "test"}
    /\ Len(books) < MaxBooks
    /\ heap' = Append(heap, [class |-> "Book", title |-> b.title, author |-> b.author])
    /\ books' = Append(books, Len(heap) + 1)
    /\ index' = index
    /\ Answer(Call("addBook", b.title), NullPtr, << >>, pc)
    /\ UNCHANGED OutsideLibrary

\* Library::createIterator() and BookIterator::BookIterator(books)
Library_createIterator ==
    /\ pc = "fill"
    /\ index' = 0
    /\ Answer(Call("createIterator", NoArg), NullPtr, << >>, "test")
    /\ UNCHANGED <<heap, books>>
    /\ UNCHANGED OutsideLibrary

\* iterator->hasNext() as the condition of main's loop
Iterator_hasNext ==
    /\ pc = "test"
    /\ Answer(Call("hasNext", NoArg), BookIterator_hasNext, << >>,
              IF BookIterator_hasNext THEN "body" ELSE "done")
    /\ UNCHANGED <<heap, books, index>>
    /\ UNCHANGED OutsideLibrary

\* iterator->next(), and main's line for the book it returned
Iterator_next ==
    /\ pc \in {"body", "done"}
    /\ IF BookIterator_hasNext
       THEN LET book == books[index + 1]
            IN /\ index' = index + 1
               /\ Answer(Call("next", NoArg), book,
                         << <<"Title: ", heap[book].title,
                              ", Author: ", heap[book].author>> >>,
                         IF pc = "body" THEN "test" ELSE "end")
       ELSE /\ index' = index
            /\ Answer(Call("next", NoArg), NullPtr, << >>,
                      IF pc = "body" THEN "test" ELSE "end")
    /\ UNCHANGED <<heap, books>>
    /\ UNCHANGED OutsideLibrary

InitLibrary ==
    /\ books = << >>
    /\ index = 0
    /\ heap = << >>
    /\ out = << >>
    /\ client = << >>
    /\ pc = "fill"
    /\ log = << >>
    /\ NoConnection /\ NoSingleton /\ NoProxy /\ NoStation
    /\ NoPayment /\ NoCoffee /\ NoPlayer

NextLibrary ==
    \/ \E b \in Books : Library_addBook(b)
    \/ Library_createIterator
    \/ Iterator_hasNext
    \/ Iterator_next

SpecLibrary == InitLibrary /\ [][NextLibrary]_vars

(***************************************************************************)
(* C14: for a library of n books that is not modified during the           *)
(* traversal, the next() calls made while hasNext() is true return the n   *)
(* books in insertion order, each exactly once, and hasNext() is false     *)
(* after exactly n next() calls, so the loop ends.                         *)
(***************************************************************************)
Ops(op) == {i \in Done : log[i].call.op = op}

\* The log position of createIterator, 0 before it.
Created == IF Ops("createIterator") = {} THEN 0
           ELSE CHOOSE i \in Ops("createIterator") : TRUE

\* No book was added after the iterator was created.
Unmodified == \A i \in Ops("addBook") : i < Created

\* The next() calls made while hasNext() was true, before log position i.
NextsBefore(i) ==
    {j \in Ops("next") : j < i /\ j - 1 \in Ops("hasNext") /\ log[j - 1].ret}

C14_TraversalInOrder ==
    (Created > 0 /\ Unmodified) =>
        LET n == Len(books)
            nexts == NextsBefore(Len(log) + 1)
        IN /\ \A j \in nexts :
                /\ Cardinality(NextsBefore(j)) < n
                /\ log[j].ret = books[Cardinality(NextsBefore(j)) + 1]
           /\ \A i \in Ops("hasNext") :
                log[i].ret = (Cardinality(NextsBefore(i)) < n)
           /\ pc \in {"done", "end"} => Cardinality(nexts) = n
           /\ \A j \in Ops("next") \ nexts : log[j].ret = NullPtr

\* A library of three books traversed to the end.
C14_Witness ==
    /\ Created > 0 /\ Unmodified
    /\ Len(books) = 3
    /\ pc = "done"
    /\ Cardinality(NextsBefore(Len(log) + 1)) = 3

(***************************************************************************)
(* Behavioural/observer.cpp.  The client registers and removes the two     *)
(* displays and changes the temperature, in any order.  The log keeps, for *)
(* every call, the observer list it left and the update() calls it made.   *)
(***************************************************************************)
\* Number of calls of the station's clients.
MaxEvents == 4

\* main's observers: a PhoneDisplay and a WindowDisplay.
Displays == {"phoneDisplay", "windowDisplay"}

\* main's temperatures.
Temperatures == {25, 30}

\* WeatherStation::temperature has no initializer: its first value is
\* indeterminate.
Indeterminate == Temperatures \cup {0}

StationCalls ==
    {Call("addObserver", o) : o \in Displays}
        \cup {Call("removeObserver", o) : o \in Displays}
        \cup {Call("setTemperature", t) : t \in Temperatures}
        \cup {Call("notifyObservers", NoArg)}

StationClients == UNION {[1..n -> StationCalls] : n \in 0..MaxEvents}

PhoneDisplay_update(t) ==
    <<"PhoneDisplay: The temperature is now ", t, " degrees.">>

WindowDisplay_update(t) ==
    <<"WindowDisplay: The temperature is now ", t, " degrees.">>

\* Virtual dispatch of observer->update(t).
Observer_update(o, t) ==
    CASE o = "phoneDisplay" -> PhoneDisplay_update(t)
      [] o = "windowDisplay" -> WindowDisplay_update(t)

\* The loop of WeatherStation::notifyObservers over obs with temperature t:
\* the update() calls it makes and the lines they print.
Notified(obs, t) ==
    [updates |-> [k \in 1..Len(obs) |-> <<obs[k], t>>],
     printed |-> [k \in 1..Len(obs) |-> Observer_update(obs[k], t)]]

\* The station's call is over.
Recorded(printed, updates) ==
    /\ Finish(printed, [call |-> client[pc], printed |-> printed,
                        updates |-> updates, observers |-> observers'])
    /\ UNCHANGED OutsideStation

WeatherStation_addObserver(observer) ==
    /\ AtCall("addObserver")
    /\ client[pc].arg = observer
    /\ observers' = Append(observers, observer)
    /\ temperature' = temperature
    /\ Recorded(<< >>, << >>)

\* Slip: only the first entry equal to observer is erased.
WeatherStation_removeObserver_first(observer) ==
    /\ AtCall("removeObserver")
    /\ client[pc].arg = observer
    /\ observers' =
        IF \E k \in 1..Len(observers) : observers[k] = observer
        THEN LET f == CHOOSE k \in 1..Len(observers) :
                        /\ observers[k] = observer
                        /\ \A j \in 1..(k - 1) : observers[j] # observer
             IN SubSeq(observers, 1, f - 1) \o SubSeq(observers, f + 1, Len(observers))
        ELSE observers
    /\ temperature' = temperature
    /\ Recorded(<< >>, << >>)

WeatherStation_removeObserver(observer) ==
    /\ AtCall("removeObserver")
    /\ client[pc].arg = observer
    /\ observers' = SelectSeq(observers, LAMBDA x : x # observer)
    /\ temperature' = temperature
    /\ Recorded(<< >>, << >>)

WeatherStation_notifyObservers ==
    /\ AtCall("notifyObservers")
    /\ UNCHANGED <<observers, temperature>>
    /\ Recorded(Notified(observers, temperature).printed,
                Notified(observers, temperature).updates)

\* Slip: the observers are notified before the new value is stored.
WeatherStation_setTemperature_late(newTemperature) ==
    /\ AtCall("setTemperature")
    /\ client[pc].arg = newTemperature
    /\ temperature' = newTemperature
    /\ observers' = observers
    /\ Recorded(<< <<"WeatherStation: New temperature is ", newTemperature, " degrees.">> >>
                    \o Notified(observers, temperature).printed,
                Notified(observers, temperature).updates)

WeatherStation_setTemperature(newTemperature) ==
    /\ AtCall("setTemperature")
    /\ client[pc].arg = newTemperature
    /\ temperature' = newTemperature
    /\ observers' = observers
    /\ Recorded(<< <<"WeatherStation: New temperature is ", newTemperature, " degrees.">> >>
                    \o Notified(observers, newTemperature).printed,
                Notified(observers, newTemperature).updates)

InitStation ==
    /\ temperature \in Indeterminate
    /\ observers = << >>
    /\ out = << >>
    /\ client \in StationClients
    /\ pc = 1
    /\ log = << >>
    /\ NoConnection /\ NoHeap /\ NoSingleton /\ NoProxy /\ NoLibrary
    /\ NoPayment /\ NoCoffee /\ NoPlayer

NextStation ==
    \/ \E o \in Displays : WeatherStation_addObserver(o)
    \/ \E o \in Displays : WeatherStation_removeObserver(o)
    \/ WeatherStation_notifyObservers
    \/ \E t \in Temperatures : WeatherStation_setTemperature(t)

SpecStation == InitStation /\ [][NextStation]_vars

\* The observer list before call i.
ObserversBefore(i) == IF i = 1 THEN << >> ELSE log[i - 1].observers

\* The observers updated by call i, in order.
Updated(i) == [k \in 1..Len(log[i].updates) |-> log[i].updates[k][1]]

InSeq(x, q) == \E k \in 1..Len(q) : q[k] = x

(***************************************************************************)
(* C15: setTemperature(t) stores t and calls update once per registered    *)
(* observer entry, in registration order, each time with the new value t   *)
(* and never with the previous temperature; the station's own report       *)
(* comes before all the updates.                                           *)
(***************************************************************************)
C15_NotifiesAllWithNewValue ==
    /\ \A i \in Ops("setTemperature") :
        LET t == log[i].call.arg
            reg == ObserversBefore(i)
        IN /\ Len(log[i].updates) = Len(reg)
           /\ \A k \in 1..Len(reg) : log[i].updates[k] = <<reg[k], t>>
           /\ Len(log[i].printed) = Len(reg) + 1
           /\ log[i].printed[1] = <<"WeatherStation: New temperature is ", t, " degrees.">>
           /\ \A k \in 1..Len(reg) : log[i].printed[k + 1][2] = t
           /\ log[i].observers = reg
    /\ (log # << >> /\ log[Len(log)].call.op = "setTemperature")
            => temperature = log[Len(log)].call.arg

\* A second temperature change, different from the first, with both
\* displays registered.
C15_Witness ==
    \E i, j \in Ops("setTemperature") :
        /\ i < j
        /\ log[i].call.arg # log[j].call.arg
        /\ Len(log[j].updates) = 2
        /\ log[j].updates[1][1] # log[j].updates[2][1]

(***************************************************************************)
(* C16: observers can be added and removed between temperature changes:    *)
(* after removeObserver(o) no later setTemperature calls o.update, while   *)
(* every other registered observer is still notified in its original       *)
(* relative order; an observer added with addObserver is notified by every *)
(* setTemperature that follows.                                            *)
(***************************************************************************)
\* The other observers are notified as before, in the same order.
OthersKeepOrder ==
    \A j \in Ops("removeObserver") :
        j + 1 \in Ops("setTemperature") =>
            Updated(j + 1) = SelectSeq(ObserversBefore(j),
                                       LAMBDA x : x # log[j].call.arg)

Between(j, i, op) ==
    {k \in Ops(op) : j < k /\ k < i /\ log[k].call.arg = log[j].call.arg}

MaxPays == 4

\* main's amounts.
Amounts == {100, 200}

\* The strategy objects main creates.
StrategyObjects ==
    << [class |-> "CreditCardPayment", cardNumber |-> "1234-5678-9876-5432",
        cardHolder |-> "John Doe"],
       [class |-> "PayPalPayment", email |-> "john.doe@example.com"] >>

PaymentCalls ==
    {Call("setStrategy", p) : p \in 0..Len(StrategyObjects)}
        \cup {Call("processPayment", a) : a \in Amounts}

PaymentClients == UNION {[1..n -> PaymentCalls] : n \in 0..MaxPays}

CreditCardPayment_pay(self, amount) ==
    << <<"Processing credit card payment of $", amount,
         " for card holder ", heap[self].cardHolder,
         " with card number ", heap[self].cardNumber, ".">> >>

PayPalPayment_pay(self, amount) ==
    << <<"Processing PayPal payment of $", amount,
         " for email address ", heap[self].email, ".">> >>

\* Virtual dispatch of strategy->pay(amount).
PaymentStrategy_pay(self, amount) ==
    CASE heap[self].class = "CreditCardPayment" -> CreditCardPayment_pay(self, amount)
      [] heap[self].class = "PayPalPayment" -> PayPalPayment_pay(self, amount)

\* The context's call is over: what it printed and the pay() calls it made.
Paid(printed, pays) ==
    /\ Finish(printed, [call |-> client[pc], printed |-> printed,
                        pays |-> pays, strategy |-> strategy'])
    /\ heap' = heap
    /\ UNCHANGED OutsidePayment

\* Slip: a strategy already set is kept.
PaymentContext_setStrategy_once(newStrategy) ==
    /\ AtCall("setStrategy")
    /\ client[pc].arg = newStrategy
    /\ strategy' = IF strategy = NullPtr THEN newStrategy ELSE strategy
    /\ Paid(<< >>, << >>)

PaymentContext_setStrategy(newStrategy) ==
    /\ AtCall("setStrategy")
    /\ client[pc].arg = newStrategy
    /\ strategy' = newStrategy
    /\ Paid(<< >>, << >>)

PaymentContext_processPayment(amount) ==
    /\ AtCall("processPayment")
    /\ client[pc].arg = amount
    /\ strategy' = strategy
    /\ IF strategy # NullPtr
       THEN Paid(PaymentStrategy_pay(strategy, amount), << <<strategy, amount>> >>)
       ELSE Paid(<< <<"No payment strategy set!">> >>, << >>)

InitPayment ==
    /\ strategy = NullPtr
    /\ heap = StrategyObjects
    /\ out = << >>
    /\ client \in PaymentClients
    /\ pc = 1
    /\ log = << >>
    /\ NoConnection /\ NoSingleton /\ NoProxy /\ NoLibrary /\ NoStation
    /\ NoCoffee /\ NoPlayer

NextPayment ==
    \/ \E p \in 0..Len(StrategyObjects) : PaymentContext_setStrategy(p)
    \/ \E a \in Amounts : PaymentContext_processPayment(a)

SpecPayment == InitPayment /\ [][NextPayment]_vars

(***************************************************************************)
(* C17: processPayment(amount) calls pay(amount) exactly once, on the      *)
(* strategy most recently passed to setStrategy and on no other; when no   *)
(* strategy was set, or the last one set is null, it calls no strategy and *)
(* reports "No payment strategy set!"; it never changes the strategy.      *)
(***************************************************************************)
\* The argument of the last setStrategy before call i, null if there is none.
LastSet(i) ==
    LET sets == {j \in Ops("setStrategy") : j < i}
    IN IF sets = {} THEN NullPtr
       ELSE log[CHOOSE j \in sets : \A k \in sets : k <= j].call.arg

C17_PaysWithLastStrategy ==
    \A i \in Ops("processPayment") :
        /\ IF LastSet(i) = NullPtr
           THEN /\ log[i].pays = << >>
                /\ log[i].printed = << <<"No payment strategy set!">> >>
           ELSE /\ log[i].pays = << <<LastSet(i), log[i].call.arg>> >>
                /\ Len(log[i].printed) = 1
                /\ log[i].printed[1][2] = log[i].call.arg
                /\ log[i].printed[1][1] =
                    IF LastSet(i) = 1 THEN "Processing credit card payment of $"
                    ELSE "Processing PayPal payment of $"
        /\ log[i].strategy = LastSet(i)
        /\ i = Len(log) => strategy = LastSet(i)

\* A payment made with one strategy and a later one made with the other.
C17_Witness ==
    \E i, j \in Ops("processPayment") :
        /\ i < j
        /\ log[i].pays # << >> /\ log[j].pays # << >>
        /\ log[i].pays[1][1] # log[j].pays[1][1]

(***************************************************************************)
(* Structural/decorator.cpp.  myCoffee owns a chain of objects: a          *)
(* SimpleCoffee wrapped in any number of decorators.  The chain is the     *)
(* sequence of their classes, innermost first.  Costs are in cents: 5.0,   *)
(* 1.0 and 0.5 are 500, 100 and 50 (all sums of them are exact doubles).   *)
(* The client wraps myCoffee and asks for its description and cost, in any *)
(* order.                                                                  *)
(***************************************************************************)
\* Number of calls of the coffee's clients.
MaxOrders == 4

CoffeeCalls ==
    { Call("MilkDecorator", NoArg), Call("SugarDecorator", NoArg),
      Call("getDescription", NoArg), Call("cost", NoArg) }

CoffeeClients == UNION {[1..n -> CoffeeCalls] : n \in 0..MaxOrders}

\* The component a decorator wraps: CoffeeDecorator::coffee.
Wrapped(c) == SubSeq(c, 1, Len(c) - 1)

RECURSIVE Coffee_getDescription(_)
RECURSIVE Coffee_cost(_)

SimpleCoffee_getDescription(c) == "Simple Coffee"

SimpleCoffee_cost(c) == 500

\* CoffeeDecorator::getDescription and cost pass the call on.
CoffeeDecorator_getDescription(c) == Coffee_getDescription(Wrapped(c))

CoffeeDecorator_cost(c) == Coffee_cost(Wrapped(c))

MilkDecorator_getDescription(c) == Coffee_getDescription(Wrapped(c)) \o ", Milk"

MilkDecorator_cost(c) == Coffee_cost(Wrapped(c)) + 100

SugarDecorator_getDescription(c) == Coffee_getDescription(Wrapped(c)) \o ", Sugar"

\* Slip: sugar is charged like milk.
SugarDecorator_cost_asMilk(c) == Coffee_cost(Wrapped(c)) + 100

SugarDecorator_cost(c) == Coffee_cost(Wrapped(c)) + 50

\* Virtual dispatch on the outermost object of the chain.
Coffee_getDescription(c) ==
    CASE c[Len(c)] = "SimpleCoffee" -> SimpleCoffee_getDescription(c)
      [] c[Len(c)] = "MilkDecorator" -> MilkDecorator_getDescription(c)
      [] c[Len(c)] = "SugarDecorator" -> SugarDecorator_getDescription(c)

Coffee_cost(c) ==
    CASE c[Len(c)] = "SimpleCoffee" -> SimpleCoffee_cost(c)
      [] c[Len(c)] = "MilkDecorator" -> MilkDecorator_cost(c)
      [] c[Len(c)] = "SugarDecorator" -> SugarDecorator_cost(c)

\* The client's statement is over.
Served(ret, printed) ==
    /\ Finish(printed, [call |-> client[pc], ret |-> ret, coffee |-> myCoffee'])
    /\ UNCHANGED OutsideCoffee

\* myCoffee = std::make_unique<MilkDecorator>(std::move(myCoffee))
MilkDecorator_MilkDecorator ==
    /\ AtCall("MilkDecorator")
    /\ myCoffee' = Append(myCoffee, "MilkDecorator")
    /\ Served(NullPtr, << >>)

\* myCoffee = std::make_unique<SugarDecorator>(std::move(myCoffee))
SugarDecorator_SugarDecorator ==
    /\ AtCall("SugarDecorator")
    /\ myCoffee' = Append(myCoffee, "SugarDecorator")
    /\ Served(NullPtr, << >>)

\* std::cout << "Description: " << myCoffee->getDescription()
Main_getDescription ==
    /\ AtCall("getDescription")
    /\ myCoffee' = myCoffee
    /\ Served(Coffee_getDescription(myCoffee),
              << <<"Description: ", Coffee_getDescription(myCoffee)>> >>)

\* std::cout << "Cost: $" << myCoffee->cost()
Main_cost ==
    /\ AtCall("cost")
    /\ myCoffee' = myCoffee
    /\ Served(Coffee_cost(myCoffee), << <<"Cost: $", Coffee_cost(myCoffee)>> >>)

\* myCoffee = std::make_unique<SimpleCoffee>()
InitCoffee ==
    /\ myCoffee = <<"SimpleCoffee">>
    /\ out = << >>
    /\ client \in CoffeeClients
    /\ pc = 1
    /\ log = << >>
    /\ NoConnection /\ NoHeap /\ NoSingleton /\ NoProxy /\ NoLibrary
    /\ NoStation /\ NoPayment /\ NoPlayer

NextCoffee ==
    \/ MilkDecorator_MilkDecorator
    \/ SugarDecorator_SugarDecorator
    \/ Main_getDescription
    \/ Main_cost

SpecCoffee == InitCoffee /\ [][NextCoffee]_vars

(***************************************************************************)
(* C18: wrapping a coffee c in MilkDecorator gives cost(c) + 1.00 and      *)
(* description(c) + ", Milk"; in SugarDecorator cost(c) + 0.50 and         *)
(* description(c) + ", Sugar"; so a chain with m Milk and s Sugar          *)
(* decorators over SimpleCoffee costs 5.00 + 1.00*m + 0.50*s whatever the  *)
(* wrapping order (in cents).                                              *)
(***************************************************************************)
\* The chain before call i.
CoffeeBefore(i) == IF i = 1 THEN <<"SimpleCoffee">> ELSE log[i - 1].coffee

\* The number of op calls made before call i.
Before(i, op) == Cardinality({j \in Ops(op) : j < i})

C18_DecoratorsAddUp ==
    /\ \A i \in Ops("MilkDecorator") :
        /\ Coffee_cost(log[i].coffee) = Coffee_cost(CoffeeBefore(i)) + 100
        /\ Coffee_getDescription(log[i].coffee)
                = Coffee_getDescription(CoffeeBefore(i)) \o ", Milk"
    /\ \A i \in Ops("SugarDecorator") :
        /\ Coffee_cost(log[i].coffee) = Coffee_cost(CoffeeBefore(i)) + 50
        /\ Coffee_getDescription(log[i].coffee)
                = Coffee_getDescription(CoffeeBefore(i)) \o ", Sugar"
    /\ \A i \in Ops("cost") :
        log[i].ret = 500 + 100 * Before(i, "MilkDecorator")
                         + 50 * Before(i, "SugarDecorator")
    /\ \A i \in Ops("getDescription") :
        /\ Before(i, "MilkDecorator") + Before(i, "SugarDecorator") = 0
                => log[i].ret = "Simple Coffee"
        /\ Len(log[i].ret) = 13 + 6 * Before(i, "MilkDecorator")
                                + 7 * Before(i, "SugarDecorator")

\* Sugar wrapped first and milk second, and the cost asked of the result.
C18_Witness ==
    \E i \in Ops("cost") :
        /\ i = 3
        /\ log[1].call.op = "SugarDecorator"
        /\ log[2].call.op = "MilkDecorator"
        /\ log[i].ret = 650

(***************************************************************************)
(* Creational/prototype.cpp.  main creates a Circle and a Square (heap     *)
(* objects 1 and 2); the client clones, recolours and draws the shapes it  *)
(* holds pointers to, in any order.                                        *)
(***************************************************************************)
\* Number of calls of the shapes' clients.
MaxShapeCalls == 3

\* The colours main passes to setColor.
Colors == {"Green", "Yellow"}

\* originalCircle and originalSquare.
OriginalShapes ==
    << [class |-> "Circle", radius |-> 10, color |-> "Red"],
       [class |-> "Square", side |-> 5, color |-> "Blue"] >>

\* The addresses a client can hold by its last call.
Pointers == 1..(Len(OriginalShapes) + MaxShapeCalls - 1)

ShapeCalls ==
    {Call("clone", p) : p \in Pointers}
        \cup {Call("setColor", <<p, c>>) : p \in Pointers, c \in Colors}
        \cup {Call("draw", p) : p \in Pointers}

\* The object a call is made on.
Target(call) == IF call.op = "setColor" THEN call.arg[1] ELSE call.arg

\* A client calls only the shapes it has: the two originals and its clones.
ShapeClients ==
    {c \in UNION {[1..n -> ShapeCalls] : n \in 0..MaxShapeCalls} :
        \A i \in 1..Len(c) :
            Target(c[i]) <= Len(OriginalShapes)
                + Cardinality({j \in 1..(i - 1) : c[j].op = "clone"})}

\* std::make_unique<Circle>(*this): the copy constructor copies each member.
Circle_clone(self) ==
    [class |-> "Circle", radius |-> heap[self].radius, color |-> heap[self].color]

Square_clone(self) ==
    [class |-> "Square", side |-> heap[self].side, color |-> heap[self].color]

Circle_draw(self) ==
    << <<"Drawing a ", heap[self].color, " circle with radius ", heap[self].radius>> >>

Square_draw(self) ==
    << <<"Drawing a ", heap[self].color, " square with side ", heap[self].side>> >>

\* The shapes' call is over.
Drawn(ret, printed) ==
    /\ Finish(printed, [call |-> client[pc], ret |-> ret, heap |-> heap'])
    /\ UNCHANGED OutsideShapes

\* Slip: clone hands out the object itself instead of a copy.
Shape_clone_alias(self) ==
    /\ AtCall("clone")
    /\ client[pc].arg = self
    /\ heap' = heap
    /\ Drawn(self, << >>)

\* Virtual dispatch of shape->clone().
Shape_clone(self) ==
    /\ AtCall("clone")
    /\ client[pc].arg = self
    /\ heap' = Append(heap, CASE heap[self].class = "Circle" -> Circle_clone(self)
                              [] heap[self].class = "Square" -> Square_clone(self))
    /\ Drawn(Len(heap) + 1, << >>)

\* Circle::setColor and Square::setColor, reached through dynamic_cast.
Shape_setColor(self, newColor) ==
    /\ AtCall("setColor")
    /\ client[pc].arg = <<self, newColor>>
    /\ heap' = [heap EXCEPT ![self].color = newColor]
    /\ Drawn(NullPtr, << >>)

\* Virtual dispatch of shape->draw().
Shape_draw(self) ==
    /\ AtCall("draw")
    /\ client[pc].arg = self
    /\ heap' = heap
    /\ Drawn(NullPtr, CASE heap[self].class = "Circle" -> Circle_draw(self)
                        [] heap[self].class = "Square" -> Square_draw(self))

InitShapes ==
    /\ heap = OriginalShapes
    /\ out = << >>
    /\ client \in ShapeClients
    /\ pc = 1
    /\ log = << >>
    /\ NoConnection /\ NoSingleton /\ NoProxy /\ NoLibrary /\ NoStation
    /\ NoPayment /\ NoCoffee /\ NoPlayer

NextShapes ==
    \/ \E p \in Pointers : Shape_clone(p)
    \/ \E p \in Pointers : \E c \in Colors : Shape_setColor(p, c)
    \/ \E p \in Pointers : Shape_draw(p)

SpecShapes == InitShapes /\ [][NextShapes]_vars

(***************************************************************************)
(* C19: clone() on a Circle or Square returns a new object of the same     *)
(* concrete type whose fields equal the original's at the time of cloning, *)
(* and the two are independent afterwards: setColor on the clone never     *)
(* changes the original's color or size, and setColor on the original      *)
(* never changes the clone.                                                *)
(***************************************************************************)
\* The heap before call i.
HeapBefore(i) == IF i = 1 THEN OriginalShapes ELSE log[i - 1].heap

C19_CloneIsIndependentCopy ==
    /\ \A i \in Ops("clone") :
        LET orig == log[i].call.arg
            copy == log[i].ret
        IN /\ copy \notin 1..Len(HeapBefore(i))
           /\ copy \in 1..Len(log[i].heap)
           /\ log[i].heap[copy] = HeapBefore(i)[orig]
           /\ log[i].heap[orig] = HeapBefore(i)[orig]
           /\ \A j \in Ops("setColor") :
                j > i =>
                    /\ log[j].call.arg[1] = copy
                            => log[j].heap[orig] = HeapBefore(j)[orig]
                    /\ log[j].call.arg[1] = orig
                            => log[j].heap[copy] = HeapBefore(j)[copy]
    /\ \A j \in Ops("setColor") :
        /\ log[j].heap[log[j].call.arg[1]].color = log[j].call.arg[2]
        /\ log[j].heap[log[j].call.arg[1]].class
                = HeapBefore(j)[log[j].call.arg[1]].class

\* A clone recoloured after cloning: it differs from its original, which
\* still has the colour it was created with.
C19_Witness ==
    \E i \in Ops("clone") : \E j \in Ops("setColor") :
        /\ j > i
        /\ log[i].call.arg \in 1..Len(OriginalShapes)
        /\ log[j].call.arg[1] = log[i].ret
        /\ heap[log[i].ret].color # heap[log[i].call.arg].color
        /\ heap[log[i].call.arg] = OriginalShapes[log[i].call.arg]

(***************************************************************************)
(* Structural/adapter.cpp.  The client calls AudioPlayer::playAudio with   *)
(* any type and file name.  A call returns the lines printed and the       *)
(* functions entered on the way.  Heap objects carry an alive flag that    *)
(* delete clears.  AudioPlayer::mediaAdapter has no initializer; it is     *)
(* never read before it is assigned, and starts here as the null pointer.  *)
(***************************************************************************)
\* Number of calls of the player's clients.
MaxPlays == 3

\* The types and file names of main.
AudioTypes == {"mp3", "mp4", "avi"}

FileNames == {"song.mp3", "movie.mp4", "video.avi"}

PlayerCalls == {Call("playAudio", <<t, f>>) : t \in AudioTypes, f \in FileNames}

PlayerClients == UNION {[1..n -> PlayerCalls] : n \in 0..MaxPlays}

VideoPlayer_playVideo(videoType, fileName) ==
    [entered |-> <<"VideoPlayer::playVideo">>,
     printed |-> IF videoType = "mp4"
                 THEN << <<"Playing mp4 video: ", fileName>> >>
                 ELSE << <<"Unsupported video format: ", videoType>> >>]

\* Slip: the adapter tests for the wrong type.
MediaAdapter_playAudio_mp3(audioType, fileName) ==
    IF audioType = "mp3"
    THEN [entered |-> <<"MediaAdapter::playAudio">>
                        \o VideoPlayer_playVideo(audioType, fileName).entered,
          printed |-> VideoPlayer_playVideo(audioType, fileName).printed]
    ELSE [entered |-> <<"MediaAdapter::playAudio">>,
          printed |-> << <<"Unsupported audio format: ", audioType>> >>]

MediaAdapter_playAudio(audioType, fileName) ==
    IF audioType = "mp4"
    THEN [entered |-> <<"MediaAdapter::playAudio">>
                        \o VideoPlayer_playVideo(audioType, fileName).entered,
          printed |-> VideoPlayer_playVideo(audioType, fileName).printed]
    ELSE [entered |-> <<"MediaAdapter::playAudio">>,
          printed |-> << <<"Unsupported audio format: ", audioType>> >>]

\* new MediaAdapter() followed by delete mediaAdapter: the adapter and its
\* VideoPlayer are created and destroyed.
AdapterCreatedAndDeleted ==
    heap \o << [class |-> "VideoPlayer", alive |-> FALSE],
               [class |-> "MediaAdapter", videoPlayer |-> Len(heap) + 1,
                alive |-> FALSE] >>

\* The player's call is over.
Played(entered, printed) ==
    /\ Finish(printed, [call |-> client[pc], entered |-> entered,
                        printed |-> printed, objects |-> Len(heap')])
    /\ UNCHANGED OutsidePlayer

AudioPlayer_playAudio(audioType, fileName) ==
    /\ AtCall("playAudio")
    /\ client[pc].arg = <<audioType, fileName>>
    /\ IF audioType = "mp3"
       THEN /\ UNCHANGED <<heap, mediaAdapter>>
            /\ Played(<< >>, << <<"Playing mp3 audio: ", fileName>> >>)
       ELSE IF audioType = "mp4"
       THEN /\ heap' = AdapterCreatedAndDeleted
            /\ mediaAdapter' = Len(heap) + 2
            /\ Played(<<"MediaAdapter::MediaAdapter">>
                        \o MediaAdapter_playAudio(audioType, fileName).entered
                        \o <<"MediaAdapter::~MediaAdapter">>,
                      MediaAdapter_playAudio(audioType, fileName).printed)
       ELSE /\ UNCHANGED <<heap, mediaAdapter>>
            /\ Played(<< >>, << <<"Unsupported format: ", audioType>> >>)

InitPlayer ==
    /\ mediaAdapter = NullPtr
    /\ heap = << >>
    /\ out = << >>
    /\ client \in PlayerClients
    /\ pc = 1
    /\ log = << >>
    /\ NoConnection /\ NoSingleton /\ NoProxy /\ NoLibrary /\ NoStation
    /\ NoPayment /\ NoCoffee

NextPlayer ==
    \E t \in AudioTypes : \E f \in FileNames : AudioPlayer_playAudio(t, f)

SpecPlayer == InitPlayer /\ [][NextPlayer]_vars

(***************************************************************************)
(* C20: playAudio(type, file) plays the file directly and creates no       *)
(* adapter when type is "mp3"; when type is "mp4" it goes through a        *)
(* MediaAdapter to VideoPlayer::playVideo, which plays the file; for any   *)
(* other type it reports an unsupported format and no player plays.        *)
(***************************************************************************)
\* The number of heap objects before call i.
ObjectsBefore(i) == IF i = 1 THEN 0 ELSE log[i - 1].objects

PlayingHeads == {"Playing mp3 audio: ", "Playing mp4 video: "}

C20_PlaysByType ==
    \A i \in Ops("playAudio") :
        LET type == log[i].call.arg[1]
            file == log[i].call.arg[2]
        IN CASE type = "mp3" ->
                    /\ log[i].printed = << <<"Playing mp3 audio: ", file>> >>
                    /\ log[i].entered = << >>
                    /\ log[i].objects = ObjectsBefore(i)
             [] type = "mp4" ->
                    /\ log[i].printed = << <<"Playing mp4 video: ", file>> >>
                    /\ log[i].entered = <<"MediaAdapter::MediaAdapter",
                                          "MediaAdapter::playAudio",
                                          "VideoPlayer::playVideo",
                                          "MediaAdapter::~MediaAdapter">>
             [] OTHER ->
                    /\ log[i].printed = << <<"Unsupported format: ", type>> >>
                    /\ log[i].entered = << >>
                    /\ log[i].objects = ObjectsBefore(i)
                    /\ \A k \in 1..Len(log[i].printed) :
                        log[i].printed[k][1] \notin PlayingHeads

\* One call of each kind: mp3, mp4 and an unsupported type.
C20_Witness ==
    /\ \E i \in Done : log[i].call.arg[1] = "mp3"
    /\ \E i \in Done : log[i].call.arg[1] = "mp4" /\ log[i].objects > ObjectsBefore(i)
    /\ \E i \in Done : log[i].call.arg[1] = "avi"

====
